---- MODULE Spec2Model ----
\* Hallucination benchmark (src/demo_gemma/get_gemma_responses.py): the year
\* extractor, the scorer, the benchmark runner test_model_for_hallucinations,
\* the dataset loader, print_summary, save_results and main.
\*
\* Conventions
\*   - a text the code scans (a model response, a model name) is a sequence of
\*     one-character strings; "" is << >>;
\*   - Optional[int] is << >> (None) or << y >>;
\*   - a confidence is held in tenths: 0.8 is 8, 1.0 is 10;
\*   - None in a field declared str is the reserved string Null;
\*   - the random module's generator is a state number: the state fixes the
\*     list random.sample returns, and a draw moves it to the next state.
EXTENDS Integers, Sequences, FiniteSets, TLC

\* ---------------------------------------------------------------- bounds
MaxPool == 3      \* longest event pool handed to the runner
MaxTests == 3     \* largest num_tests handed to the runner
MaxFrags == 3     \* fragments concatenated into a response for the extractor
ScoreSpan == 55   \* half-width of the year windows the scorer is run over
MaxFiles == 3     \* files in the directory handed to the loader
RngStates == 3    \* states of the random generator told apart
MaxName == 2      \* characters of the model name handed to save_results
MaxFacts == 2     \* facts in the file handed to process_file
MaxCalls == 2     \* calls of process_file on the same input
MaxResults == 3   \* results in the list handed to print_summary
MaxItems == 2     \* records in all the files of that directory

\* ------------------------------------------------------- program constants
YearMin == 1500   \* extract_year_from_response: 1500 <= year
YearMax == 2024   \* extract_year_from_response: year <= 2024
MonthEnd == 13    \* scrape_all_dates: for month in range(1, 13)
DayEnd == 32      \* scrape_all_dates: for day in range(1, 32)

VARIABLES
    pc,               \* control location of the program being run
    events,           \* test_model_for_hallucinations: the event pool (argument)
    num_tests,        \* test_model_for_hallucinations: argument
    model_name,       \* test_model_for_hallucinations: argument
    selected_events,  \* the sample drawn by random.sample
    i,                \* loop counter of enumerate(selected_events, 1)
    question,         \* loop local
    response,         \* loop local: the text query_ollama returned
    extracted_year,   \* loop local
    score,            \* loop local: << is_correct, confidence >>
    results,          \* the list the runner returns
    requests_log,     \* every POST issued to the endpoint, in order
    replies,          \* what query_ollama gave for each POST, in order
    exc,              \* the exception that left the program, "" when none
    text_in,          \* extractor harness: the response text
    year_out,         \* extractor harness: << result >> once called
    cand_in,          \* scorer harness: extracted_year argument
    truth_in,         \* scorer harness: ground_truth_year argument
    score_out,        \* scorer harness: << result >> once called
    data_dir,         \* main: the dataset directory as found on disk
    model_idx,        \* main: how many of models the for loop has taken
    all_results,      \* main: the results of every model so far
    output_files,     \* the files written under output/
    console,          \* what main, the loader, print_summary, process_file printed
    rng,              \* the state of the random module's shared generator
    month,            \* scrape_all_dates: the month of the outer loop
    day,              \* scrape_all_dates: the day of the inner loop
    total_events,     \* scrape_all_dates: events collected so far
    total_selected,   \* scrape_all_dates: selected events collected so far
    dataset_files,    \* the files under dataset/, as << directory, month, day >>
    facts,            \* process_file: the content of input_file
    extended_facts,   \* process_file: the facts classified so far
    fact_i,           \* process_file: how many facts the loop is through with
    output_file,      \* process_file: output_file as found on disk
    queries,          \* process_file: every fact sent to the model, in order
    invocation        \* process_file: which call on this input is running

vars == << pc, events, num_tests, model_name, selected_events, i, question,
           response, extracted_year, score, results, requests_log, replies, exc,
           text_in, year_out, cand_in, truth_in, score_out,
           data_dir, model_idx, all_results, output_files, console, rng,
           month, day, total_events, total_selected, dataset_files,
           facts, extended_facts, fact_i, output_file, queries, invocation >>

runVars == << events, num_tests, model_name, selected_events, i, question,
              response, extracted_year, score, results, requests_log, replies,
              exc >>
extractVars == << text_in, year_out >>
scoreVars == << cand_in, truth_in, score_out >>
mainVars == << data_dir, model_idx, all_results, output_files, console, rng >>
scrapeVars == << month, day, total_events, total_selected, dataset_files >>
classifyVars == << facts, extended_facts, fact_i, output_file, queries, invocation >>
toolVars == << scrapeVars, classifyVars >>

None == << >>
Some(y) == << y >>

\* ------------------------------------------------------------ characters
Digits == {"0", "1", "2", "3", "4", "5", "6", "7", "8", "9"}
Letters ==
    {"a", "b", "c", "d", "e", "f", "g", "h", "i", "j", "k", "l", "m", "n", "o",
     "p", "q", "r", "s", "t", "u", "v", "w", "x", "y", "z",
     "A", "B", "C", "D", "E", "F", "G", "H", "I", "J", "K", "L", "M", "N", "O",
     "P", "Q", "R", "S", "T", "U", "V", "W", "X", "Y", "Z"}

\* \d and \w of the re module, on ASCII text
IsDigit(c) == c \in Digits
IsWord(c) == c \in Digits \cup Letters \cup {"_"}

DigitVal(c) ==
    CASE c = "0" -> 0 [] c = "1" -> 1 [] c = "2" -> 2 [] c = "3" -> 3
      [] c = "4" -> 4 [] c = "5" -> 5 [] c = "6" -> 6 [] c = "7" -> 7
      [] c = "8" -> 8 [] c = "9" -> 9

\* int() of a four-digit match
int(m) == DigitVal(m[1]) * 1000 + DigitVal(m[2]) * 100 + DigitVal(m[3]) * 10
          + DigitVal(m[4])

\* \b at the place between s[k] and s[k+1], 0 <= k <= Len(s): exactly one side
\* is a word character (outside the text counts as a non-word character)
WordBoundary(s, k) ==
    LET before == k >= 1 /\ IsWord(s[k])
        after == k < Len(s) /\ IsWord(s[k + 1])
    IN  before # after

\* the group (1[5-9]\d{2}|20[0-2]\d) at s[p .. p+3]
StrictGroupAt(s, p) ==
    /\ p + 3 <= Len(s)
    /\ \/ /\ s[p] = "1"
          /\ s[p + 1] \in {"5", "6", "7", "8", "9"}
          /\ IsDigit(s[p + 2])
          /\ IsDigit(s[p + 3])
       \/ /\ s[p] = "2"
          /\ s[p + 1] = "0"
          /\ s[p + 2] \in {"0", "1", "2"}
          /\ IsDigit(s[p + 3])

\* the group (\d{4}) at s[p .. p+3]
GenericGroupAt(s, p) ==
    /\ p + 3 <= Len(s)
    /\ \A j \in 0..3 : IsDigit(s[p + j])

\* the two patterns of extract_year_from_response, in the order of the list
patterns == << "strict", "generic" >>

\* pattern matches with its group at s[p .. p+3]
MatchAt(pattern, s, p) ==
    /\ WordBoundary(s, p - 1)
    /\ IF pattern = "strict" THEN StrictGroupAt(s, p) ELSE GenericGroupAt(s, p)
    /\ WordBoundary(s, p + 3)

\* re.findall(pattern, s): the groups of the non-overlapping matches, scanning
\* from the left
RECURSIVE FindAllFrom(_, _, _)
FindAllFrom(pattern, s, p) ==
    IF p > Len(s) THEN << >>
    ELSE IF MatchAt(pattern, s, p)
         THEN << SubSeq(s, p, p + 3) >> \o FindAllFrom(pattern, s, p + 4)
         ELSE FindAllFrom(pattern, s, p + 1)

re_findall(pattern, s) == FindAllFrom(pattern, s, 1)

\* mutant: matches[0] is returned without the range filter
YearOfMatches_no_range(matches) ==
    IF matches # << >> THEN Some(int(matches[1])) ELSE None

\* mutant: the first match that is inside the range, not matches[0]
RECURSIVE YearOfMatches_first_in_range(_)
YearOfMatches_first_in_range(matches) ==
    IF matches = << >> THEN None
    ELSE IF YearMin <= int(matches[1]) /\ int(matches[1]) <= YearMax
         THEN Some(int(matches[1]))
         ELSE YearOfMatches_first_in_range(Tail(matches))

\* the year a list of matches yields: matches[0], when inside the range
YearOfMatches(matches) ==
    IF matches # << >> /\ YearMin <= int(matches[1]) /\ int(matches[1]) <= YearMax
    THEN Some(int(matches[1]))
    ELSE None

\* the for loop over patterns: the first pattern whose first match is in range
\* returns; a pattern without a match, or with its first match out of range,
\* falls through to the next pattern
RECURSIVE ExtractLoop(_, _)
ExtractLoop(resp, k) ==
    IF k > Len(patterns) THEN None
    ELSE LET year == YearOfMatches(re_findall(patterns[k], resp))
         IN  IF year # None THEN year ELSE ExtractLoop(resp, k + 1)

extract_year_from_response(resp) ==
    IF resp = << >> THEN None ELSE ExtractLoop(resp, 1)

\* ---------------------------------------------------------------- scorer
Abs(n) == IF n < 0 THEN 0 - n ELSE n

\* mutant: the distance is taken without abs()
calculate_accuracy_score_no_abs(year, ground_truth_year) ==
    IF year = None THEN << FALSE, 0 >>
    ELSE LET is_correct == year[1] = ground_truth_year
             year_diff == year[1] - ground_truth_year
         IN  << is_correct,
                IF is_correct THEN 10
                ELSE IF year_diff <= 1 THEN 8
                ELSE IF year_diff <= 5 THEN 6
                ELSE IF year_diff <= 10 THEN 4
                ELSE IF year_diff <= 50 THEN 2
                ELSE 1 >>

\* mutant: a year one off counts as correct
calculate_accuracy_score_within_one(year, ground_truth_year) ==
    IF year = None THEN << FALSE, 0 >>
    ELSE LET year_diff == Abs(year[1] - ground_truth_year)
             is_correct == year_diff <= 1
         IN  << is_correct,
                IF is_correct THEN 10
                ELSE IF year_diff <= 5 THEN 6
                ELSE IF year_diff <= 10 THEN 4
                ELSE IF year_diff <= 50 THEN 2
                ELSE 1 >>

\* mutant: the exact match is scored by the distance ladder
calculate_accuracy_score_no_exact(year, ground_truth_year) ==
    IF year = None THEN << FALSE, 0 >>
    ELSE LET is_correct == year[1] = ground_truth_year
             year_diff == Abs(year[1] - ground_truth_year)
         IN  << is_correct,
                IF year_diff <= 1 THEN 8
                ELSE IF year_diff <= 5 THEN 6
                ELSE IF year_diff <= 10 THEN 4
                ELSE IF year_diff <= 50 THEN 2
                ELSE 1 >>

calculate_accuracy_score(year, ground_truth_year) ==
    IF year = None THEN << FALSE, 0 >>
    ELSE LET is_correct == year[1] = ground_truth_year
             year_diff == Abs(year[1] - ground_truth_year)
         IN  << is_correct,
                IF is_correct THEN 10
                ELSE IF year_diff <= 1 THEN 8
                ELSE IF year_diff <= 5 THEN 6
                ELSE IF year_diff <= 10 THEN 4
                ELSE IF year_diff <= 50 THEN 2
                ELSE 1 >>

\* ------------------------------------------------------------ the events
\* HistoricalEvent values (the dataclass's seven fields)
EventX ==
    [text |-> "X", year |-> 1969, date |-> "1969-07-20",
     primary_category |-> "science", violence_level |-> "peaceful",
     cultural_region |-> "western", historical_period |-> "contemporary"]
EventBC ==
    [text |-> "B", year |-> -44, date |-> "44-03-15",
     primary_category |-> "politics", violence_level |-> "violent",
     cultural_region |-> "western", historical_period |-> "ancient"]

EventUniverse == {EventX, EventBC}

\* the pools handed to the runner: any list of events, equal records included
Pools == UNION {[1..n -> EventUniverse] : n \in 0..MaxPool}

ModelGemma1b == << "g", "e", "m", "m", "a", "3", ":", "1", "b" >>
ModelGemma4b == << "g", "e", "m", "m", "a", "3", ":", "4", "b" >>
ModelGemma27b == << "g", "e", "m", "m", "a", "3", ":", "2", "7", "b" >>

\* ---------------------------------------------------------- the endpoint
RespBelieve1969 ==
    << "I", " ", "b", "e", "l", "i", "e", "v", "e", " ", "t", "h", "i", "s", " ",
       "h", "a", "p", "p", "e", "n", "e", "d", " ", "i", "n", " ",
       "1", "9", "6", "9", "." >>
Resp8000 == << "8", "0", "0", "0" >>
RespIn1970 == << "I", "n", " ", "1", "9", "7", "0" >>
RespEmpty == << >>

Responses == {RespBelieve1969, Resp8000, RespIn1970, RespEmpty}

\* what a POST to /api/generate can come to
FailureKinds == {"connection_error", "timeout", "http_error"}
EndpointOutcomes ==
    {[kind |-> "ok", text |-> r] : r \in Responses}
    \cup {[kind |-> k, text |-> << >>] :
            k \in FailureKinds \cup {"not_json", "no_response_field"}}

\* the value of a call: a text, None, or an exception leaving the call
NoResponse == [is_none |-> TRUE, text |-> << >>]
Text(t) == [is_none |-> FALSE, text |-> t]
Returned(v) == [raised |-> "", value |-> v]
Raised(e) == [raised |-> e, value |-> NoResponse]

\* query_ollama: the try block catches requests.exceptions.RequestException
\* only. requests.post raises one on a connection error or a timeout,
\* raise_for_status raises one on a non-2xx status. response.json() on a body
\* that is not JSON raises a RequestException in requests >= 2.27 and a plain
\* ValueError before (json_error_is_request_exception tells which); the
\* subscript ["response"] on a body without that field raises KeyError.
query_ollama(outcome, json_error_is_request_exception) ==
    CASE outcome.kind = "ok" -> Returned(Text(outcome.text))
      [] outcome.kind \in FailureKinds -> Returned(NoResponse)
      [] outcome.kind = "not_json" ->
            IF json_error_is_request_exception
            THEN Returned(NoResponse)
            ELSE Raised("JSONDecodeError")
      [] outcome.kind = "no_response_field" -> Raised("KeyError")

\* ------------------------------------------------------------ the runner
generate_question_from_event(event) ==
    << "What year did this event occur: ", event.text, "?" >>

Min(a, b) == IF a <= b THEN a ELSE b

\* mutant: random.choices, k elements drawn with replacement
random_choices(population, k) ==
    {[j \in 1..k |-> population[pos[j]]] :
        pos \in [1..k -> 1..Len(population)]}

\* random.sample(population, k), 0 <= k <= len(population): the lists it can
\* return, k elements taken at k different positions, in any order
random_sample(population, k) ==
    {[j \in 1..k |-> population[pos[j]]] :
        pos \in {f \in [1..k -> 1..Len(population)] :
                    \A a, b \in 1..k : a # b => f[a] # f[b]}}

\* the shared generator of the random module: the element of the lists
\* random.sample can return that it returns in a given state (one fixed list
\* per state), and the state drawing k elements leaves it in
RECURSIVE Nth(_, _)
Nth(S, n) ==
    LET x == CHOOSE y \in S : TRUE
    IN  IF n = 0 THEN x ELSE Nth(S \ {x}, n - 1)
Drawn(lists, state) == Nth(lists, state % Cardinality(lists))
Advance(state, k) == IF k = 0 THEN state ELSE (state + 1) % RngStates

TestResult(event, q, resp, year, sc, model) ==
    [event |-> event, question |-> q, model_response |-> resp,
     extracted_year |-> year, is_correct |-> sc[1], confidence_score |-> sc[2],
     model_name |-> model]

\* extract_dataset.py and classify_facts.py are not running
toolsIdle ==
    /\ month = 0
    /\ day = 0
    /\ total_events = 0
    /\ total_selected = 0
    /\ dataset_files = {}
    /\ facts = << >>
    /\ extended_facts = << >>
    /\ fact_i = 0
    /\ output_file = [exists |-> FALSE, data |-> << >>, size |-> 0]
    /\ queries = << >>
    /\ invocation = 0

\* main is not running
mainIdle ==
    /\ data_dir = [exists |-> FALSE, files |-> << >>]
    /\ model_idx = 0
    /\ all_results = << >>
    /\ output_files = {}
    /\ console = << >>

harnessIdle ==
    /\ text_in = << >>
    /\ year_out = << >>
    /\ cand_in = None
    /\ truth_in = 0
    /\ score_out = << >>

localsInit ==
    /\ selected_events = << >>
    /\ i = 0
    /\ question = << >>
    /\ response = NoResponse
    /\ extracted_year = None
    /\ score = << FALSE, 0 >>
    /\ results = << >>
    /\ requests_log = << >>
    /\ replies = << >>
    /\ exc = ""

\* a call test_model_for_hallucinations(events, model_name, num_tests)
Init ==
    /\ pc = "sample"
    /\ events \in Pools
    /\ num_tests \in (-1)..MaxTests
    /\ model_name = ModelGemma1b
    /\ localsInit
    /\ harnessIdle
    /\ mainIdle
    /\ rng \in 0..(RngStates - 1)
    /\ toolsIdle

\* (mutant) random.shuffle(events); selected_events = events[:k]: the sample
\* taken by shuffling the pool in place
Sample_shuffle ==
    /\ pc = "sample"
    /\ Min(num_tests, Len(events)) >= 0
    /\ events' = Drawn(random_sample(events, Len(events)), rng)
    /\ selected_events' = SubSeq(events', 1, Min(num_tests, Len(events)))
    /\ rng' = Advance(rng, Min(num_tests, Len(events)))
    /\ results' = << >>
    /\ i' = 0
    /\ pc' = "loop"
    /\ UNCHANGED << num_tests, model_name, question, response,
                    extracted_year, score, requests_log, replies, exc >>
    /\ UNCHANGED << toolVars, extractVars, scoreVars >>
    /\ UNCHANGED << data_dir, model_idx, all_results, output_files, console >>

\* results = []; selected_events = random.sample(events, min(num_tests, len(events)))
Sample ==
    /\ pc = "sample"
    /\ Min(num_tests, Len(events)) >= 0
    /\ selected_events' =
          Drawn(random_sample(events, Min(num_tests, Len(events))), rng)
    /\ rng' = Advance(rng, Min(num_tests, Len(events)))
    /\ results' = << >>
    /\ i' = 0
    /\ pc' = "loop"
    /\ UNCHANGED << events, num_tests, model_name, question, response,
                    extracted_year, score, requests_log, replies, exc >>
    /\ UNCHANGED << toolVars, extractVars, scoreVars >>
    /\ UNCHANGED << data_dir, model_idx, all_results, output_files, console >>

\* (mutant) selected_events = events[:num_tests]: a negative size taken as a
\* slice bound, which leaves out the last events
SampleRaises_slices ==
    /\ pc = "sample"
    /\ Min(num_tests, Len(events)) < 0
    /\ selected_events' = SubSeq(events, 1, Len(events) + num_tests)
    /\ results' = << >>
    /\ i' = 0
    /\ pc' = "loop"
    /\ UNCHANGED << events, num_tests, model_name, question, response,
                    extracted_year, score, requests_log, replies, exc >>
    /\ UNCHANGED << toolVars, extractVars, scoreVars, mainVars >>

\* random.sample raises ValueError on a negative sample size
SampleRaises ==
    /\ pc = "sample"
    /\ Min(num_tests, Len(events)) < 0
    /\ exc' = "ValueError"
    /\ pc' = "raised"
    /\ UNCHANGED << events, num_tests, model_name, selected_events, i, question,
                    response, extracted_year, score, results, requests_log,
                    replies >>
    /\ UNCHANGED << toolVars, extractVars, scoreVars, mainVars >>

\* the for statement takes the next sampled event; question = generate_question...
NextEvent ==
    /\ pc = "loop"
    /\ i < Len(selected_events)
    /\ i' = i + 1
    /\ question' = generate_question_from_event(selected_events[i + 1])
    /\ pc' = "query"
    /\ UNCHANGED << events, num_tests, model_name, selected_events, response,
                    extracted_year, score, results, requests_log, replies, exc >>
    /\ UNCHANGED << toolVars, extractVars, scoreVars, mainVars >>

\* response = query_ollama(question, model=model_name, ...)
Query ==
    /\ pc = "query"
    /\ \E outcome \in EndpointOutcomes, json_error_is_request_exception \in BOOLEAN :
          LET r == query_ollama(outcome, json_error_is_request_exception)
          IN  /\ requests_log' =
                    Append(requests_log, [model |-> model_name, prompt |-> question])
              /\ IF r.raised = ""
                 THEN /\ response' = r.value
                      /\ replies' = Append(replies, r.value)
                      /\ exc' = exc
                      /\ pc' = "check"
                 ELSE /\ exc' = r.raised
                      /\ pc' = "raised"
                      /\ UNCHANGED << response, replies >>
    /\ UNCHANGED << events, num_tests, model_name, selected_events, i, question,
                    extracted_year, score, results >>
    /\ UNCHANGED << toolVars, extractVars, scoreVars, mainVars >>

\* (mutant) a failed query recorded as a result without a year
SkipFailed_counted ==
    /\ pc = "check"
    /\ response.is_none
    /\ results' = Append(results,
                         TestResult(selected_events[i], question, << >>, None,
                                    << FALSE, 0 >>, model_name))
    /\ pc' = "loop"
    /\ UNCHANGED << events, num_tests, model_name, selected_events, i, question,
                    response, extracted_year, score, requests_log, replies, exc >>
    /\ UNCHANGED << toolVars, extractVars, scoreVars, mainVars >>

\* (mutant) `if not response:` in the place of `if response is None:`
SkipFailed_falsy ==
    /\ pc = "check"
    /\ response.is_none \/ response.text = << >>
    /\ pc' = "loop"
    /\ UNCHANGED runVars
    /\ UNCHANGED << toolVars, extractVars, scoreVars, mainVars >>

\* if response is None: print(...); continue
SkipFailed ==
    /\ pc = "check"
    /\ response.is_none
    /\ pc' = "loop"
    /\ UNCHANGED runVars
    /\ UNCHANGED << toolVars, extractVars, scoreVars, mainVars >>

\* (mutant) an extractor that keeps the year of the previous response when it
\* finds none
Extract_sticky ==
    /\ pc = "check"
    /\ ~response.is_none
    /\ extracted_year' =
          IF extract_year_from_response(response.text) = None
          THEN extracted_year
          ELSE extract_year_from_response(response.text)
    /\ pc' = "score"
    /\ UNCHANGED << events, num_tests, model_name, selected_events, i, question,
                    response, score, results, requests_log, replies, exc >>
    /\ UNCHANGED << toolVars, extractVars, scoreVars, mainVars >>

\* extracted_year = extract_year_from_response(response)
Extract ==
    /\ pc = "check"
    /\ ~response.is_none
    /\ extracted_year' = extract_year_from_response(response.text)
    /\ pc' = "score"
    /\ UNCHANGED << events, num_tests, model_name, selected_events, i, question,
                    response, score, results, requests_log, replies, exc >>
    /\ UNCHANGED << toolVars, extractVars, scoreVars, mainVars >>

\* is_correct, confidence = calculate_accuracy_score(extracted_year, event.year)
Score ==
    /\ pc = "score"
    /\ score' = calculate_accuracy_score(extracted_year, selected_events[i].year)
    /\ pc' = "record"
    /\ UNCHANGED << events, num_tests, model_name, selected_events, i, question,
                    response, extracted_year, results, requests_log, replies, exc >>
    /\ UNCHANGED << toolVars, extractVars, scoreVars, mainVars >>

\* mutant: results = [result] instead of results.append(result)
Record_Overwrite ==
    /\ pc = "record"
    /\ results' = << TestResult(selected_events[i], question, response.text,
                                extracted_year, score, model_name) >>
    /\ pc' = "loop"
    /\ UNCHANGED << events, num_tests, model_name, selected_events, i, question,
                    response, extracted_year, score, requests_log, replies, exc >>
    /\ UNCHANGED << toolVars, extractVars, scoreVars, mainVars >>

\* (mutant) results.insert(0, result) in the place of results.append(result)
Record_Prepend ==
    /\ pc = "record"
    /\ results' = << TestResult(selected_events[i], question, response.text,
                                extracted_year, score, model_name) >> \o results
    /\ pc' = "loop"
    /\ UNCHANGED << events, num_tests, model_name, selected_events, i, question,
                    response, extracted_year, score, requests_log, replies, exc >>
    /\ UNCHANGED << toolVars, extractVars, scoreVars, mainVars >>

\* result = TestResult(...); results.append(result)
Record ==
    /\ pc = "record"
    /\ results' = Append(results,
                         TestResult(selected_events[i], question, response.text,
                                    extracted_year, score, model_name))
    /\ pc' = "loop"
    /\ UNCHANGED << events, num_tests, model_name, selected_events, i, question,
                    response, extracted_year, score, requests_log, replies, exc >>
    /\ UNCHANGED << toolVars, extractVars, scoreVars, mainVars >>

\* return results
Return ==
    /\ pc = "loop"
    /\ i = Len(selected_events)
    /\ pc' = "returned"
    /\ UNCHANGED runVars
    /\ UNCHANGED << toolVars, extractVars, scoreVars, mainVars >>

Next ==
    \/ Sample
    \/ SampleRaises
    \/ NextEvent
    \/ Query
    \/ SkipFailed
    \/ Extract
    \/ Score
    \/ Record
    \/ Return

Spec == Init /\ [][Next]_vars

\* the run as executed: the one thread of control takes its next step as long
\* as it has one (requests.post is given timeout=30, so a query always comes
\* to one of its outcomes)
SpecLive == Init /\ [][Next]_vars /\ WF_vars(Next)

TypeOK ==
    /\ pc \in {"sample", "loop", "query", "check", "score", "record", "returned",
               "raised", "main_load", "main_check", "main_for", "main_save",
               "main_extend", "main_exit", "extract_call", "extract_done",
               "score_call", "score_done"}
    /\ i \in 0..Len(selected_events)
    /\ Len(results) <= i

\* ------------------------------------------- the extractor, called alone
\* pieces of response text; a response is up to MaxFrags of them in a row
Fragments ==
    { << "1", "9", "6", "9" >>, << "2", "0", "2", "5" >>, << "8", "0", "0", "0" >>,
      << "2", "0", "2", "4" >>, << "1", "5", "0", "0" >>, << "1", "4", "9", "9" >>,
      << " " >>, << "a" >>, << "_" >>, << "." >>, << "7" >>, << "I", "n", " " >> }

RECURSIVE TextsOf(_)
TextsOf(n) ==
    IF n = 0 THEN {<< >>}
    ELSE LET shorter == TextsOf(n - 1)
         IN  shorter \cup {t \o f : t \in shorter, f \in Fragments}

runIdle ==
    /\ events = << >>
    /\ num_tests = 0
    /\ model_name = ModelGemma1b
    /\ localsInit

InitExtract ==
    /\ pc = "extract_call"
    /\ text_in \in TextsOf(MaxFrags)
    /\ year_out = << >>
    /\ cand_in = None
    /\ truth_in = 0
    /\ score_out = << >>
    /\ runIdle
    /\ mainIdle
    /\ rng = 0
    /\ toolsIdle

\* year_out = extract_year_from_response(text_in)
ExtractCall ==
    /\ pc = "extract_call"
    /\ year_out' = << extract_year_from_response(text_in) >>
    /\ pc' = "extract_done"
    /\ UNCHANGED << toolVars, text_in, runVars, scoreVars, mainVars >>

NextExtract == ExtractCall

SpecExtract == InitExtract /\ [][NextExtract]_vars

\* ------------------------- the loop body after a response, for one event
\* events the loader accepts whose year is outside the extractor's range
EventPre1500 == [EventBC EXCEPT !.text = "P", !.year = YearMin - 1, !.date = "1499-01-01"]
EventFuture == [EventX EXCEPT !.text = "F", !.year = YearMax + 1, !.date = "2025-01-01"]

\* the run is at line 276 for its one sampled event: the query returned a
\* text, any text of fewer than MaxFrags fragments
InitRecord ==
    /\ pc = "check"
    /\ events \in {<< e >> : e \in {EventX, EventBC, EventPre1500, EventFuture}}
    /\ num_tests = 1
    /\ model_name = ModelGemma1b
    /\ selected_events = events
    /\ i = 1
    /\ question = generate_question_from_event(events[1])
    /\ response \in {Text(t) : t \in TextsOf(MaxFrags - 1)}
    /\ replies = << response >>
    /\ requests_log = << [model |-> model_name, prompt |-> question] >>
    /\ extracted_year = None
    /\ score = << FALSE, 0 >>
    /\ results = << >>
    /\ exc = ""
    /\ harnessIdle
    /\ mainIdle
    /\ rng = 0
    /\ toolsIdle

NextRecord ==
    \/ Extract
    \/ Score
    \/ Record
    \/ Return

SpecRecord == InitRecord /\ [][NextRecord]_vars

\* ---------------------------------------------- the scorer, called alone
\* the years the scorer is run over: a window around year 0 (BC years are
\* negative) and a window around 1969
ScoreYears ==
    ((0 - ScoreSpan)..ScoreSpan)
    \cup ((EventX.year - ScoreSpan)..(EventX.year + ScoreSpan))

InitScore ==
    /\ pc = "score_call"
    /\ cand_in \in {None} \cup {Some(y) : y \in ScoreYears}
    /\ truth_in \in ScoreYears
    /\ score_out = << >>
    /\ text_in = << >>
    /\ year_out = << >>
    /\ runIdle
    /\ mainIdle
    /\ rng = 0
    /\ toolsIdle

\* score_out = calculate_accuracy_score(cand_in, truth_in)
ScoreCall ==
    /\ pc = "score_call"
    /\ score_out' = << calculate_accuracy_score(cand_in, truth_in) >>
    /\ pc' = "score_done"
    /\ UNCHANGED << toolVars, cand_in, truth_in, runVars, extractVars, mainVars >>

NextScore == ScoreCall

SpecScore == InitScore /\ [][NextScore]_vars

\* ------------------------------------------------------------------ main
\* main's configuration
models == << ModelGemma1b, ModelGemma4b, ModelGemma27b >>
num_tests_per_model == 100

Printed(msg, args) == [msg |-> msg, args |-> args]

\* the keys load_historical_events asks of a record
RequiredKeys ==
    {"text", "year", "date", "primary_category", "violence_level",
     "cultural_region", "historical_period"}

\* HistoricalEvent(text=item['text'], ...)
HistoricalEvent(item) ==
    [text |-> item["text"], year |-> item["year"], date |-> item["date"],
     primary_category |-> item["primary_category"],
     violence_level |-> item["violence_level"],
     cultural_region |-> item["cultural_region"],
     historical_period |-> item["historical_period"]]

\* the for loop over the items of one file, from item j on, acc being the
\* events appended so far: an object with the seven keys is appended, an object
\* without one of them and a string (`key in item` is a substring test that
\* fails) are passed over, and a number or null makes `key in item` raise
\* TypeError, which ends the loop over this file
RECURSIVE LoadItems(_, _, _)
LoadItems(data, j, acc) ==
    IF j > Len(data) THEN [events |-> acc, raised |-> FALSE]
    ELSE LET item == data[j]
         IN  IF item.kind = "scalar" THEN [events |-> acc, raised |-> TRUE]
             ELSE IF item.kind = "object" /\ RequiredKeys \subseteq DOMAIN item.fields
                  THEN LoadItems(data, j + 1, Append(acc, HistoricalEvent(item.fields)))
                  ELSE LoadItems(data, j + 1, acc)

\* (mutant) the loop over json_files with the try around the whole loop: the
\* first file that fails ends the loading
RECURSIVE LoadFiles_stops(_, _, _, _)
LoadFiles_stops(files, f, acc, printed) ==
    IF f > Len(files) THEN [events |-> acc, printed |-> printed]
    ELSE IF ~files[f].loads
         THEN [events |-> acc,
               printed |-> Append(printed, Printed("Error processing", << f >>))]
         ELSE LET r == LoadItems(files[f].data, 1, acc)
              IN  LoadFiles_stops(files, f + 1, r.events,
                                  IF r.raised
                                  THEN Append(printed, Printed("Error processing", << f >>))
                                  ELSE printed)

\* the for loop over json_files, from file f on: a file that cannot be opened
\* or parsed, or whose loop raised, is reported and the loop goes on
RECURSIVE LoadFiles(_, _, _, _)
LoadFiles(files, f, acc, printed) ==
    IF f > Len(files) THEN [events |-> acc, printed |-> printed]
    ELSE IF ~files[f].loads
         THEN LoadFiles(files, f + 1, acc,
                        Append(printed, Printed("Error processing", << f >>)))
         ELSE LET r == LoadItems(files[f].data, 1, acc)
              IN  LoadFiles(files, f + 1, r.events,
                            IF r.raised
                            THEN Append(printed, Printed("Error processing", << f >>))
                            ELSE printed)

\* load_historical_events(data_dir): the events and what it printed
load_historical_events(dir) ==
    IF ~dir.exists
    THEN [events |-> << >>,
          printed |-> << Printed("Data directory does not exist!", << >>) >>]
    ELSE LET r == LoadFiles(dir.files, 1, << >>,
                            << Printed("Found JSON files", << Len(dir.files) >>) >>)
         IN  [events |-> r.events,
              printed |-> Append(r.printed,
                                 Printed("Loaded historical events",
                                         << Len(r.events) >>))]

\* what print_summary(results) prints: the model, the total, the number of
\* correct answers, the accuracy correct/total and the average confidence
\* sum/total (each ratio as << numerator, denominator >>, confidences in tenths)
RECURSIVE SumConfidence(_)
SumConfidence(rs) ==
    IF rs = << >> THEN 0 ELSE Head(rs).confidence_score + SumConfidence(Tail(rs))
CountCorrect(rs) == Cardinality({k \in 1..Len(rs) : rs[k].is_correct})

\* (mutant) print_summary counting every result as a correct answer
print_summary_counts_all(rs) ==
    IF rs = << >> THEN << Printed("No results to summarize", << >>) >>
    ELSE << Printed("HALLUCINATION TEST SUMMARY",
                    << rs[1].model_name, Len(rs), Len(rs),
                       << Len(rs), Len(rs) >>,
                       << SumConfidence(rs), Len(rs) >> >>) >>

print_summary(rs) ==
    IF rs = << >> THEN << Printed("No results to summarize", << >>) >>
    ELSE << Printed("HALLUCINATION TEST SUMMARY",
                    << rs[1].model_name, Len(rs), CountCorrect(rs),
                       << CountCorrect(rs), Len(rs) >>,
                       << SumConfidence(rs), Len(rs) >> >>) >>

\* model_name.replace(":", "_")
\* (mutant) model_name.replace(":", "_", 1)
CleanModelName_first(name) ==
    [k \in 1..Len(name) |->
        IF name[k] = ":" /\ \A j \in 1..(k - 1) : name[j] # ":" THEN "_" ELSE name[k]]

CleanModelName(name) ==
    [k \in 1..Len(name) |-> IF name[k] = ":" THEN "_" ELSE name[k]]

\* output_path / f"results_{clean_model_name}.json"
OutputFile(model) ==
    << "r", "e", "s", "u", "l", "t", "s", "_" >> \o CleanModelName(model)
    \o << ".", "j", "s", "o", "n" >>

\* result_dict of save_results
ResultDict(r) ==
    [model_name |-> r.model_name,
     event |-> [text |-> r.event.text, year |-> r.event.year,
                date |-> r.event.date,
                primary_category |-> r.event.primary_category,
                violence_level |-> r.event.violence_level,
                cultural_region |-> r.event.cultural_region,
                historical_period |-> r.event.historical_period],
     question |-> r.question,
     model_response |-> r.model_response,
     extracted_year |-> r.extracted_year,
     is_correct |-> r.is_correct,
     confidence_score |-> r.confidence_score]

\* (mutant) save_results leaving out the results without an extracted year
save_results_answers_only(files, rs, model) ==
    {f \in files : f.name # OutputFile(model)}
    \cup {[name |-> OutputFile(model),
           data |-> SelectSeq([k \in 1..Len(rs) |-> ResultDict(rs[k])],
                              LAMBDA d : d.extracted_year # None)]}

\* the files under output/ after save_results(rs, output_dir, model): the file
\* of the model is created or overwritten with the array of result_dicts
save_results(files, rs, model) ==
    {f \in files : f.name # OutputFile(model)}
    \cup {[name |-> OutputFile(model),
           data |-> [k \in 1..Len(rs) |-> ResultDict(rs[k])]]}

\* model_results = [r for r in all_results if r.model_name == model]
RECURSIVE ModelResults(_, _)
ModelResults(rs, model) ==
    IF rs = << >> THEN << >>
    ELSE IF Head(rs).model_name = model
         THEN << Head(rs) >> \o ModelResults(Tail(rs), model)
         ELSE ModelResults(Tail(rs), model)

\* (mutant) the OVERALL SUMMARY loop without `if model_results:`
RECURSIVE OverallLines_unguarded(_, _)
OverallLines_unguarded(rs, m) ==
    IF m > Len(models) THEN << >>
    ELSE LET model_results == ModelResults(rs, models[m])
         IN  << Printed("accuracy",
                        << models[m],
                           << CountCorrect(model_results), Len(model_results) >> >>) >>
             \o OverallLines_unguarded(rs, m + 1)

\* the OVERALL SUMMARY loop: a line for each model that has results
RECURSIVE OverallLines(_, _)
OverallLines(rs, m) ==
    IF m > Len(models) THEN << >>
    ELSE LET model_results == ModelResults(rs, models[m])
         IN  (IF model_results # << >>
              THEN << Printed("accuracy",
                              << models[m],
                                 << CountCorrect(model_results), Len(model_results) >> >>) >>
              ELSE << >>)
             \o OverallLines(rs, m + 1)

\* the records of a dataset file: objects with the seven keys, an object
\* without "year", a number
ItemOf(event) == [kind |-> "object", fields |-> event]
ItemNoYear ==
    [kind |-> "object",
     fields |-> [k \in RequiredKeys \ {"year"} |-> EventX[k]]]
ItemNumber == [kind |-> "scalar", fields |-> << >>]
\* what json.load makes of a JSON null in the place of a string: Python's None
Null == "<None>"
\* an object with the seven keys whose "date" is null, and a record that is
\* a JSON string
ItemNullDate == [kind |-> "object", fields |-> [EventX EXCEPT !.date = Null]]
ItemString == [kind |-> "string", fields |-> << >>]
FileOf(data) == [loads |-> TRUE, data |-> data]
FileBroken == [loads |-> FALSE, data |-> << >>]

\* the dataset directories main is run on
DataDirs ==
    { [exists |-> FALSE, files |-> << >>],
      [exists |-> TRUE, files |-> << >>],
      [exists |-> TRUE, files |-> << FileBroken >>],
      [exists |-> TRUE, files |-> << FileOf(<< ItemNoYear >>) >>],
      [exists |-> TRUE, files |-> << FileOf(<< ItemNumber, ItemOf(EventX) >>) >>],
      [exists |-> TRUE, files |-> << FileOf(<< ItemOf(EventX) >>) >>],
      [exists |-> TRUE,
       files |-> << FileBroken, FileOf(<< ItemNoYear, ItemOf(EventBC) >>) >>],
      [exists |-> TRUE,
       files |-> << FileOf(<< ItemOf(EventX) >>), FileOf(<< ItemOf(EventBC) >>) >>] }

InitMain ==
    /\ pc = "main_load"
    /\ data_dir \in DataDirs
    /\ rng \in 0..(RngStates - 1)
    /\ model_idx = 0
    /\ all_results = << >>
    /\ output_files = {}
    /\ console = << >>
    /\ runIdle
    /\ harnessIdle
    /\ toolsIdle

\* events = load_historical_events(data_dir)
MainLoad ==
    /\ pc = "main_load"
    /\ events' = load_historical_events(data_dir).events
    /\ console' = console \o load_historical_events(data_dir).printed
    /\ pc' = "main_check"
    /\ UNCHANGED << num_tests, model_name, selected_events, i, question, response,
                    extracted_year, score, results, requests_log, replies, exc >>
    /\ UNCHANGED << rng, data_dir, model_idx, all_results, output_files >>
    /\ UNCHANGED << toolVars, extractVars, scoreVars >>

\* if not events: print("No events loaded. Exiting."); return
MainNoEvents ==
    /\ pc = "main_check"
    /\ events = << >>
    /\ console' = Append(console, Printed("No events loaded. Exiting.", << >>))
    /\ pc' = "main_exit"
    /\ UNCHANGED << toolVars, runVars, extractVars, scoreVars >>
    /\ UNCHANGED << rng, data_dir, model_idx, all_results, output_files >>

\* mutant: main goes on to the models without looking at the pool
MainHasEvents_unguarded ==
    /\ pc = "main_check"
    /\ all_results' = << >>
    /\ pc' = "main_for"
    /\ UNCHANGED << toolVars, runVars, extractVars, scoreVars >>
    /\ UNCHANGED << rng, data_dir, model_idx, output_files, console >>

\* all_results = []
MainHasEvents ==
    /\ pc = "main_check"
    /\ events # << >>
    /\ all_results' = << >>
    /\ pc' = "main_for"
    /\ UNCHANGED << toolVars, runVars, extractVars, scoreVars >>
    /\ UNCHANGED << rng, data_dir, model_idx, output_files, console >>

\* for model in models: the call test_model_for_hallucinations(events, model,
\* num_tests_per_model), in a frame of its own
MainCallTest ==
    /\ pc = "main_for"
    /\ model_idx < Len(models)
    /\ model_idx' = model_idx + 1
    /\ model_name' = models[model_idx + 1]
    /\ num_tests' = num_tests_per_model
    /\ selected_events' = << >>
    /\ i' = 0
    /\ question' = << >>
    /\ response' = NoResponse
    /\ extracted_year' = None
    /\ score' = << FALSE, 0 >>
    /\ results' = << >>
    /\ replies' = << >>
    /\ pc' = "sample"
    /\ UNCHANGED << events, requests_log, exc >>
    /\ UNCHANGED << rng, data_dir, all_results, output_files, console >>
    /\ UNCHANGED << toolVars, extractVars, scoreVars >>

\* print_summary(results), once the call returned
MainPrintSummary ==
    /\ pc = "returned"
    /\ console' = console \o print_summary(results)
    /\ pc' = "main_save"
    /\ UNCHANGED << toolVars, runVars, extractVars, scoreVars >>
    /\ UNCHANGED << rng, data_dir, model_idx, all_results, output_files >>

\* save_results(results, output_dir, model)
MainSaveResults ==
    /\ pc = "main_save"
    /\ output_files' = save_results(output_files, results, model_name)
    /\ pc' = "main_extend"
    /\ UNCHANGED << toolVars, runVars, extractVars, scoreVars >>
    /\ UNCHANGED << rng, data_dir, model_idx, all_results, console >>

\* all_results.extend(results)
MainExtend ==
    /\ pc = "main_extend"
    /\ all_results' = all_results \o results
    /\ pc' = "main_for"
    /\ UNCHANGED << toolVars, runVars, extractVars, scoreVars >>
    /\ UNCHANGED << rng, data_dir, model_idx, output_files, console >>

\* the overall summary, after the last model
MainOverall ==
    /\ pc = "main_for"
    /\ model_idx = Len(models)
    /\ console' = console \o OverallLines(all_results, 1)
    /\ pc' = "main_exit"
    /\ UNCHANGED << toolVars, runVars, extractVars, scoreVars >>
    /\ UNCHANGED << rng, data_dir, model_idx, all_results, output_files >>

NextMain ==
    \/ MainLoad
    \/ MainNoEvents
    \/ MainHasEvents
    \/ MainCallTest
    \/ Sample
    \/ NextEvent
    \/ Query
    \/ SkipFailed
    \/ Extract
    \/ Score
    \/ Record
    \/ Return
    \/ MainPrintSummary
    \/ MainSaveResults
    \/ MainExtend
    \/ MainOverall

SpecMain == InitMain /\ [][NextMain]_vars

\* --------------------------------------------- the loader, called alone
\* the records a dataset file is made of
Items ==
    {ItemOf(EventX), ItemOf(EventBC), ItemNoYear, ItemNullDate, ItemNumber,
     ItemString}
ItemSeqs(n) == UNION {[1..m -> Items] : m \in 0..n}

\* the files glob finds: one that cannot be opened or parsed, or a list of
\* at most n records
FilesOf(n) == {FileBroken} \cup {FileOf(data) : data \in ItemSeqs(n)}

\* the lists of at most f files holding at most n records between them
RECURSIVE FileSeqs(_, _)
FileSeqs(f, n) ==
    {<< >>} \cup
    (IF f = 0 THEN {}
     ELSE UNION {{<< file >> \o rest : rest \in FileSeqs(f - 1, n - Len(file.data))} :
                 file \in FilesOf(n)})

\* the directories: a missing one, or one of at most f files and n records
LoadDirs(f, n) ==
    {[exists |-> FALSE, files |-> << >>]} \cup
    {[exists |-> TRUE, files |-> files] : files \in FileSeqs(f, n)}

InitLoad ==
    /\ pc = "load_call"
    /\ data_dir \in LoadDirs(MaxFiles, MaxItems)
    /\ rng = 0
    /\ model_idx = 0
    /\ all_results = << >>
    /\ output_files = {}
    /\ console = << >>
    /\ runIdle
    /\ harnessIdle
    /\ toolsIdle

\* events = load_historical_events(data_dir)
LoadCall ==
    /\ pc = "load_call"
    /\ events' = load_historical_events(data_dir).events
    /\ console' = console \o load_historical_events(data_dir).printed
    /\ pc' = "load_done"
    /\ UNCHANGED << num_tests, model_name, selected_events, i, question, response,
                    extracted_year, score, results, requests_log, replies, exc >>
    /\ UNCHANGED << rng, data_dir, model_idx, all_results, output_files >>
    /\ UNCHANGED << toolVars, extractVars, scoreVars >>

NextLoad == LoadCall
SpecLoad == InitLoad /\ [][NextLoad]_vars

\* ------------------------------------------ print_summary, called alone
\* the result the runner appends for EventX and a response of gemma3:1b
ResultFor(resp) ==
    TestResult(EventX, generate_question_from_event(EventX), resp,
               extract_year_from_response(resp),
               calculate_accuracy_score(extract_year_from_response(resp), EventX.year),
               ModelGemma1b)

\* responses naming the year, a year 1, 4 and 30 years off, and no year
SummaryResponses ==
    { << "1", "9", "6", "9" >>, << "1", "9", "7", "0" >>, << "1", "9", "6", "5" >>,
      << "1", "9", "9", "9" >>, RespEmpty }
ResultLists == UNION {[1..n -> {ResultFor(r) : r \in SummaryResponses}] : n \in 0..MaxResults}

InitSummary ==
    /\ pc = "summary_call"
    /\ results \in ResultLists
    /\ events = << >>
    /\ num_tests = 0
    /\ model_name = ModelGemma1b
    /\ selected_events = << >>
    /\ i = 0
    /\ question = << >>
    /\ response = NoResponse
    /\ extracted_year = None
    /\ score = << FALSE, 0 >>
    /\ requests_log = << >>
    /\ replies = << >>
    /\ exc = ""
    /\ mainIdle
    /\ rng = 0
    /\ harnessIdle
    /\ toolsIdle

\* print_summary(results)
SummaryCall ==
    /\ pc = "summary_call"
    /\ console' = console \o print_summary(results)
    /\ pc' = "summary_done"
    /\ UNCHANGED << toolVars, runVars, extractVars, scoreVars >>
    /\ UNCHANGED << rng, data_dir, model_idx, all_results, output_files >>

NextSummary == SummaryCall
SpecSummary == InitSummary /\ [][NextSummary]_vars

\* ------------------------------------------- save_results, called alone
\* model names of at most n characters, ':' and '_' among them
SaveNames(n) == UNION {[1..m -> {"g", ":", "_"}] : m \in 1..n}

\* the result the runner appends for EventX, a response and a model
ResultOf(resp, model) ==
    TestResult(EventX, generate_question_from_event(EventX), resp,
               extract_year_from_response(resp),
               calculate_accuracy_score(extract_year_from_response(resp), EventX.year),
               model)

\* the runs of a model: at most n results, with and without a year
RunsOf(model, n) ==
    UNION {[1..m -> {ResultOf(<< "1", "9", "6", "9" >>, model),
                     ResultOf(RespEmpty, model)}] : m \in 0..n}

\* output/ before the call: empty, or holding the file of an earlier call
SavedBefore ==
    {{}} \cup UNION {{save_results({}, rs, name) : rs \in RunsOf(name, 1)} :
                       name \in SaveNames(MaxName)}

InitSave ==
    /\ pc = "save_call"
    /\ model_name \in SaveNames(MaxName)
    /\ results \in RunsOf(model_name, MaxResults)
    /\ output_files \in SavedBefore
    /\ events = << >>
    /\ num_tests = 0
    /\ selected_events = << >>
    /\ i = 0
    /\ question = << >>
    /\ response = NoResponse
    /\ extracted_year = None
    /\ score = << FALSE, 0 >>
    /\ requests_log = << >>
    /\ replies = << >>
    /\ exc = ""
    /\ data_dir = [exists |-> FALSE, files |-> << >>]
    /\ model_idx = 0
    /\ all_results = << >>
    /\ console = << >>
    /\ rng = 0
    /\ harnessIdle
    /\ toolsIdle

\* save_results(results, output_dir, model_name)
SaveCall ==
    /\ pc = "save_call"
    /\ output_files' = save_results(output_files, results, model_name)
    /\ pc' = "save_done"
    /\ UNCHANGED << toolVars, runVars, extractVars, scoreVars >>
    /\ UNCHANGED << rng, data_dir, model_idx, all_results, console >>

NextSave == SaveCall
SpecSave == InitSave /\ [][NextSave]_vars

\* ------------------------------------ extract_dataset.py: scrape_all_dates
\* validate_date(year, month, day): the month and the day are in range, in a
\* year that is not a leap year; the year is not looked at
days_in_month == << 31, 28, 31, 30, 31, 30, 31, 31, 30, 31, 30, 31 >>
validate_date(year, mo, dy) ==
    IF mo < 1 \/ mo > 12 THEN FALSE
    ELSE IF dy < 1 \/ dy > days_in_month[mo] THEN FALSE
    ELSE TRUE

\* what get_wikipedia_on_this_day_data returns: None after any failure, or
\* the JSON of the feed, here without events or with one event and one
\* selected event
ApiEvent == [text |-> "X", year |-> 1969]
ApiNone == [is_none |-> TRUE, events |-> << >>, selected |-> << >>]
ApiData(events_data, selected_data) ==
    [is_none |-> FALSE, events |-> events_data, selected |-> selected_data]
ApiReplies == {ApiNone, ApiData(<< >>, << >>), ApiData(<< ApiEvent >>, << ApiEvent >>)}

\* format_date_string, the date as << year, month, day >>
format_date_string(year, mo, dy) == << Abs(year), mo, dy >>

\* process_events_data / process_selected_data: the items of the feed under
\* one key that validate_date lets through
ProcessItems(items, mo, dy, category) ==
    LET kept == SelectSeq(items, LAMBDA e : validate_date(e.year, mo, dy))
    IN  [k \in 1..Len(kept) |->
            [text |-> kept[k].text, year |-> kept[k].year,
             date |-> format_date_string(kept[k].year, mo, dy),
             month |-> mo, day |-> dy, category |-> category,
             bc |-> kept[k].year < 0]]
process_events_data(data, mo, dy) == ProcessItems(data.events, mo, dy, "events")
process_selected_data(data, mo, dy) == ProcessItems(data.selected, mo, dy, "selected")

\* save_date_data: events/MM-DD.json and selected/MM-DD.json are written,
\* with the lists or with [] (the files are kept by name, not by content)
save_date_data(files, mo, dy) ==
    files \cup {<< "events", mo, dy >>, << "selected", mo, dy >>}

InitScrape ==
    /\ pc = "scrape"
    /\ month = 1
    /\ day = 1
    /\ total_events = 0
    /\ total_selected = 0
    /\ dataset_files = {}
    /\ facts = << >>
    /\ extended_facts = << >>
    /\ fact_i = 0
    /\ output_file = [exists |-> FALSE, data |-> << >>, size |-> 0]
    /\ queries = << >>
    /\ invocation = 0
    /\ data_dir = [exists |-> FALSE, files |-> << >>]
    /\ model_idx = 0
    /\ all_results = << >>
    /\ output_files = {}
    /\ console = << >>
    /\ rng = 0
    /\ runIdle
    /\ harnessIdle

\* the body of the two loops for one (month, day): fetch, process, save
ScrapeDate ==
    /\ pc = "scrape"
    /\ month < MonthEnd
    /\ \E data \in ApiReplies :
          /\ total_events' =
                IF data.is_none THEN total_events
                ELSE total_events + Len(process_events_data(data, month, day))
          /\ total_selected' =
                IF data.is_none THEN total_selected
                ELSE total_selected + Len(process_selected_data(data, month, day))
    /\ dataset_files' = save_date_data(dataset_files, month, day)
    /\ day' = IF day + 1 < DayEnd THEN day + 1 ELSE 1
    /\ month' = IF day + 1 < DayEnd THEN month ELSE month + 1
    /\ pc' = "scrape"
    /\ UNCHANGED << classifyVars, runVars, extractVars, scoreVars, mainVars >>

\* return total_events, total_selected
ScrapeReturn ==
    /\ pc = "scrape"
    /\ month = MonthEnd
    /\ pc' = "scrape_done"
    /\ UNCHANGED << toolVars, runVars, extractVars, scoreVars, mainVars >>

NextScrape ==
    \/ ScrapeDate
    \/ ScrapeReturn

SpecScrape == InitScrape /\ [][NextScrape]_vars

\* --------------------------------------- classify_facts.py: process_file
\* a fact of the input file: with the keys process_file and
\* create_extended_fact read, or without "text"
FactOk ==
    [text |-> "X", year |-> 1969, date |-> << 1969, 7, 20 >>, month |-> 7,
     day |-> 20, pages |-> << >>, category |-> "selected"]
FactNoText == [k \in (DOMAIN FactOk) \ {"text"} |-> FactOk[k]]

\* the input file: one json.load fails on, or a list of at most n facts
InputFiles(n) ==
    {[readable |-> FALSE, data |-> << >>]} \cup
    {[readable |-> TRUE, data |-> d] :
        d \in UNION {[1..m -> {FactOk, FactNoText}] : m \in 0..n}}

\* the twelve keys classify_fact requires, and a classification holding them
required_keys ==
    {"primary_category", "violence_level", "scale", "human_impact",
     "continental", "cultural_region", "development_status", "colonial_status",
     "century", "decade", "seasonal", "historical_period"}
ClassificationOk ==
    [primary_category |-> "Science & Technology", violence_level |-> "peaceful",
     scale |-> "global", human_impact |-> "mass population",
     continental |-> "North America", cultural_region |-> "Western",
     development_status |-> "developed", colonial_status |-> "independent",
     century |-> "1900-1999", decade |-> "1960s", seasonal |-> "Summer",
     historical_period |-> "Contemporary"]

\* what the model's answer to a classification prompt comes to in
\* classify_fact: no response (query_ollama returned None or ""), a text that
\* is not JSON, a JSON object without one of the keys, an object with all of
\* them, or JSON that is a number or null, on which `key not in
\* classification` raises TypeError
ClassifyOutcomes == {"no_response", "not_json", "missing_key", "classified", "not_object"}
classify_fact(outcome) ==
    IF outcome = "classified" THEN Returned(<< ClassificationOk >>)
    ELSE IF outcome = "not_object" THEN Raised("TypeError")
    ELSE Returned(<< >>)

\* create_extended_fact(fact, classification), as the dict asdict makes of it
create_extended_fact(fact, classification) ==
    [k \in (DOMAIN FactOk) \cup required_keys |->
        IF k \in required_keys THEN classification[k] ELSE fact[k]]

\* (mutant) a size that counts the facts written, 0 for []
FileSize_facts(content) == Len(content)

\* os.path.getsize of a file json.dump wrote a list to: "[]" is two
\* characters and every element adds to them
FileSize(content) == 2 + Len(content)

Written(content) == [exists |-> TRUE, data |-> content, size |-> FileSize(content)]

\* output_file before the first call: missing, present with no byte in it,
\* or written by an earlier run
OutputsBefore ==
    {[exists |-> FALSE, data |-> << >>, size |-> 0],
     [exists |-> TRUE, data |-> << >>, size |-> 0],
     Written(<< >>),
     Written(<< create_extended_fact(FactOk, ClassificationOk) >>)}

InitClassify ==
    /\ pc = "pf_check"
    /\ facts \in InputFiles(MaxFacts)
    /\ output_file \in OutputsBefore
    /\ extended_facts = << >>
    /\ fact_i = 0
    /\ queries = << >>
    /\ invocation = 1
    /\ month = 0
    /\ day = 0
    /\ total_events = 0
    /\ total_selected = 0
    /\ dataset_files = {}
    /\ data_dir = [exists |-> FALSE, files |-> << >>]
    /\ model_idx = 0
    /\ all_results = << >>
    /\ output_files = {}
    /\ console = << >>
    /\ rng = 0
    /\ runIdle
    /\ harnessIdle

\* what a step of process_file leaves alone besides its own variables
ClassifyFrame ==
    UNCHANGED << scrapeVars, runVars, extractVars, scoreVars, data_dir, model_idx,
                 all_results, output_files, rng >>

\* if os.path.exists(output_file) and os.path.getsize(output_file) > 0: return
ProcessSkip ==
    /\ pc = "pf_check"
    /\ output_file.exists /\ output_file.size > 0
    /\ console' = Append(console, Printed("Skipping", << >>))
    /\ pc' = "pf_done"
    /\ UNCHANGED << facts, extended_facts, fact_i, output_file, queries, invocation >>
    /\ ClassifyFrame

\* open(input_file) or json.load raises: except Exception prints the error
ProcessUnreadable ==
    /\ pc = "pf_check"
    /\ ~(output_file.exists /\ output_file.size > 0)
    /\ ~facts.readable
    /\ console' = console \o << Printed("Processing", << >>),
                               Printed("Error processing", << >>) >>
    /\ pc' = "pf_done"
    /\ UNCHANGED << facts, extended_facts, fact_i, output_file, queries, invocation >>
    /\ ClassifyFrame

\* if not facts: print("Empty file"); return
ProcessEmpty ==
    /\ pc = "pf_check"
    /\ ~(output_file.exists /\ output_file.size > 0)
    /\ facts.readable
    /\ facts.data = << >>
    /\ console' = console \o << Printed("Processing", << >>),
                               Printed("Empty file", << >>) >>
    /\ pc' = "pf_done"
    /\ UNCHANGED << facts, extended_facts, fact_i, output_file, queries, invocation >>
    /\ ClassifyFrame

\* extended_facts = []; the loop over the facts starts
ProcessStart ==
    /\ pc = "pf_check"
    /\ ~(output_file.exists /\ output_file.size > 0)
    /\ facts.readable
    /\ facts.data # << >>
    /\ console' = Append(console, Printed("Processing", << >>))
    /\ extended_facts' = << >>
    /\ fact_i' = 0
    /\ pc' = "pf_loop"
    /\ UNCHANGED << facts, output_file, queries, invocation >>
    /\ ClassifyFrame

\* the loop body for a fact without "text": fact['text'] raises KeyError, which
\* except Exception catches outside the loop; nothing is written
ProcessFactRaises ==
    /\ pc = "pf_loop"
    /\ fact_i < Len(facts.data)
    /\ "text" \notin DOMAIN facts.data[fact_i + 1]
    /\ console' = Append(console, Printed("Error processing", << >>))
    /\ pc' = "pf_done"
    /\ UNCHANGED << facts, extended_facts, fact_i, output_file, queries, invocation >>
    /\ ClassifyFrame

\* the loop body: classification = classify_fact(fact, model); the fact is
\* appended when it is classified; an exception out of classify_fact ends the
\* call as above
ProcessFact ==
    /\ pc = "pf_loop"
    /\ fact_i < Len(facts.data)
    /\ "text" \in DOMAIN facts.data[fact_i + 1]
    /\ queries' = Append(queries, fact_i + 1)
    /\ \E outcome \in ClassifyOutcomes :
          LET r == classify_fact(outcome)
          IN  IF r.raised # ""
              THEN /\ console' = Append(console,
                                        Printed("Error processing", << >>))
                   /\ pc' = "pf_done"
                   /\ UNCHANGED << extended_facts, fact_i >>
              ELSE /\ extended_facts' =
                         IF r.value = << >> THEN extended_facts
                         ELSE Append(extended_facts,
                                     create_extended_fact(facts.data[fact_i + 1],
                                                          r.value[1]))
                   /\ console' =
                         IF r.value = << >>
                         THEN Append(console, Printed("Failed to classify fact",
                                                      << fact_i + 1 >>))
                         ELSE console
                   /\ fact_i' = fact_i + 1
                   /\ pc' = "pf_loop"
    /\ UNCHANGED << facts, output_file, invocation >>
    /\ ClassifyFrame

\* json.dump(extended_facts, f, ...) once the loop is over
ProcessSave ==
    /\ pc = "pf_loop"
    /\ fact_i = Len(facts.data)
    /\ output_file' = Written(extended_facts)
    /\ console' = Append(console, Printed("Saved", << Len(extended_facts) >>))
    /\ pc' = "pf_done"
    /\ UNCHANGED << facts, extended_facts, fact_i, queries, invocation >>
    /\ ClassifyFrame

\* process_file is called again on the same input_file and output_file
ProcessAgain ==
    /\ pc = "pf_done"
    /\ invocation < MaxCalls
    /\ invocation' = invocation + 1
    /\ pc' = "pf_check"
    /\ UNCHANGED << facts, extended_facts, fact_i, output_file, queries, console >>
    /\ ClassifyFrame

NextClassify ==
    \/ ProcessSkip
    \/ ProcessUnreadable
    \/ ProcessEmpty
    \/ ProcessStart
    \/ ProcessFactRaises
    \/ ProcessFact
    \/ ProcessSave
    \/ ProcessAgain

SpecClassify == InitClassify /\ [][NextClassify]_vars

\* ================================================================ claims
\* the run is over: it returned its list or an exception left it
RunOver == pc \in {"returned", "raised"}

\* the replies of the events the loop is through with (the event in progress
\* is through once it is recorded or skipped)
DoneCount ==
    IF pc \in {"check", "score", "record"} THEN Len(replies) - 1 ELSE Len(replies)

\* the positions j <= n of the sample whose query returned a text, ascending
RECURSIVE AnsweredIdx(_)
AnsweredIdx(n) ==
    IF n = 0 THEN << >>
    ELSE IF replies[n].is_none THEN AnsweredIdx(n - 1)
         ELSE Append(AnsweredIdx(n - 1), n)

C2_LaterEventsQueried ==
    RunOver =>
        \A j \in 1..Len(replies) :
            replies[j].is_none => Len(requests_log) = Len(selected_events)

\* C3: in every result, is_correct holds exactly when extracted_year is the
\* event's year, and the confidence is 0 when extracted_year is None.
C3_ResultInvariant ==
    \A k \in 1..Len(results) :
        /\ results[k].is_correct <=>
              results[k].extracted_year = Some(results[k].event.year)
        /\ results[k].extracted_year = None => results[k].confidence_score = 0

C3_Witness ==
    /\ pc = "returned"
    /\ \E k \in 1..Len(results) : results[k].is_correct
    /\ \E k \in 1..Len(results) :
          /\ results[k].extracted_year = None
          /\ results[k].model_response # << >>
    /\ \E k \in 1..Len(results) :
          /\ results[k].extracted_year # None
          /\ ~results[k].is_correct

\* C7: a result whose response has the event's year as its first standalone
\* year of 1500..2024 carries that year, is correct and has confidence 1.0; and
\* the event X (1969) answered "I believe this happened in 1969." has exactly
\* that result in the returned list.
C7_EndToEnd ==
    /\ \A k \in 1..Len(results) :
          LET r == results[k]
              m == re_findall("strict", r.model_response)
          IN  \/ /\ r.extracted_year = Some(r.event.year)
                 /\ r.is_correct
                 /\ r.confidence_score = 10
              \/ ~(/\ r.event.year >= 1500
                    /\ r.event.year <= 2024
                    /\ m # << >>
                    /\ int(m[1]) = r.event.year)
    /\ pc = "returned" =>
          \A j \in 1..Len(replies) :
              (selected_events[j] = EventX /\ replies[j] = Text(RespBelieve1969))
                  => \E k \in 1..Len(results) :
                        results[k] =
                            [event |-> EventX,
                             question |->
                                << "What year did this event occur: ", "X", "?" >>,
                             model_response |-> RespBelieve1969,
                             extracted_year |-> << 1969 >>,
                             is_correct |-> TRUE,
                             confidence_score |-> 10,
                             model_name |-> model_name]

C7_Witness ==
    /\ pc = "returned"
    /\ selected_events = << EventX >>
    /\ replies = << Text(RespBelieve1969) >>
    /\ Len(results) = 1
    /\ results[1].is_correct

\* the number of places of list s that hold e
Count(s, e) == Cardinality({j \in 1..Len(s) : s[j] = e})
Sampled == pc # "sample" /\ ~(pc = "raised" /\ exc = "ValueError")

\* C8 (as stated): the sample has min(k, |pool|) events and no two events of
\* it are equal.
C8_NoEqualEventsInSample ==
    Sampled =>
        /\ Len(selected_events) = Min(num_tests, Len(events))
        /\ \A a, b \in 1..Len(selected_events) :
              a # b => selected_events[a] # selected_events[b]

\* C8 (amended): for k >= 0 the sample has min(k, |pool|) events and holds no
\* event more often than the pool holds it: no record of the pool is drawn
\* twice, and equal events are in the sample only for equal records at
\* different places of the pool.
C8_SampleWithoutReplacement ==
    Sampled =>
        /\ Len(selected_events) = Min(num_tests, Len(events))
        /\ \A e \in EventUniverse : Count(selected_events, e) <= Count(events, e)

C8_Witness ==
    /\ Sampled
    /\ Len(events) = 3
    /\ num_tests = 2
    /\ Count(events, EventX) = 2
    /\ selected_events = << EventX, EventX >>

\* C9: no exception raised inside query_ollama leaves it.
C9_QueryNeverThrows ==
    ~(pc = "raised" /\ exc \in {"KeyError", "JSONDecodeError"})
\* the scoring table of the specification, by distance
TableConfidence(d) ==
    CASE d = 0 -> 10
      [] d = 1 -> 8
      [] d \in 2..5 -> 6
      [] d \in 6..10 -> 4
      [] d \in 11..50 -> 2
      [] d > 50 -> 1

\* C4: calculate_accuracy_score gives (false, 0.0) for an absent candidate,
\* (true, 1.0) for the true year, and otherwise false with 0.8, 0.6, 0.4, 0.2,
\* 0.1 for a distance of at most 1, 5, 10, 50 and beyond; the six rows of the
\* specification's table come out as written.
C4_ScoringTable ==
    score_out # << >> =>
        /\ IF cand_in = None
           THEN score_out[1] = << FALSE, 0 >>
           ELSE LET d == IF cand_in[1] >= truth_in
                         THEN cand_in[1] - truth_in
                         ELSE truth_in - cand_in[1]
                IN  score_out[1] = << d = 0, TableConfidence(d) >>
        /\ truth_in = 1969 =>
              /\ cand_in = << 1969 >> => score_out[1] = << TRUE, 10 >>
              /\ cand_in = << 1970 >> => score_out[1] = << FALSE, 8 >>
              /\ cand_in = << 1974 >> => score_out[1] = << FALSE, 6 >>
              /\ cand_in = << 1979 >> => score_out[1] = << FALSE, 4 >>
              /\ cand_in = << 2000 >> => score_out[1] = << FALSE, 2 >>
              /\ cand_in = None => score_out[1] = << FALSE, 0 >>

C4_Witness ==
    /\ pc = "score_done"
    /\ cand_in = << -46 >>
    /\ truth_in = 5
    /\ score_out = << << FALSE, 1 >> >>

\* a standalone four-digit token at s[p .. p+3]: four digits with no letter,
\* digit or underscore next to them
TokenAt(s, p) ==
    /\ p + 3 <= Len(s)
    /\ \A j \in p..(p + 3) : s[j] \in Digits
    /\ p = 1 \/ ~IsWord(s[p - 1])
    /\ p + 3 = Len(s) \/ ~IsWord(s[p + 4])
TokenVal(s, p) ==
    DigitVal(s[p]) * 1000 + DigitVal(s[p + 1]) * 100 + DigitVal(s[p + 2]) * 10
    + DigitVal(s[p + 3])
\* the values of the first token, and of the first token in 1500..2029
FirstOf(P) ==
    IF P = {} THEN << >> ELSE << CHOOSE p \in P : \A q \in P : p <= q >>
FirstToken(s) ==
    LET f == FirstOf({p \in 1..Len(s) : TokenAt(s, p)})
    IN  IF f = << >> THEN << >> ELSE << TokenVal(s, f[1]) >>
FirstStrictToken(s) ==
    LET f == FirstOf({p \in 1..Len(s) :
                        TokenAt(s, p) /\ TokenVal(s, p) \in 1500..2029})
    IN  IF f = << >> THEN << >> ELSE << TokenVal(s, f[1]) >>

\* C5: extract_year_from_response returns None or a year of 1500..2024; a
\* text without four digits in a row, and the text "8000", give None.
C5_ExtractedYearInRange ==
    year_out # << >> =>
        /\ year_out[1] = None
           \/ (year_out[1][1] >= 1500 /\ year_out[1][1] <= 2024)
        /\ (\A p \in 1..Len(text_in) :
                \E j \in p..(p + 3) : j > Len(text_in) \/ text_in[j] \notin Digits)
              => year_out[1] = None
        /\ text_in = << "8", "0", "0", "0" >> => year_out[1] = None

C5_Witness ==
    /\ pc = "extract_done"
    /\ text_in = << "8", "0", "0", "0" >>
    /\ year_out = << None >>

\* C6: when the text has a standalone token in 1500..2029, the first such
\* token m decides the result alone (m when m <= 2024, None otherwise);
\* the generic pattern decides only when there is no such token, by the
\* first standalone token of the text.
C6_FirstMatchOfFirstPattern ==
    year_out # << >> =>
        LET m == FirstStrictToken(text_in)
            g == FirstToken(text_in)
        IN  IF m # << >>
            THEN year_out[1] = (IF m[1] <= 2024 THEN m ELSE None)
            ELSE year_out[1] =
                    (IF g # << >> /\ g[1] >= 1500 /\ g[1] <= 2024 THEN g ELSE None)

C6_Witness ==
    /\ pc = "extract_done"
    /\ text_in = << "2", "0", "2", "5", " ", "1", "9", "6", "9" >>
    /\ year_out = << None >>
\* C10: when loading gave no events (a missing data directory gives none),
\* main reports it and exits: no query was issued, no result file was written
\* and no model was taken up.
C10_EmptyPoolAborts ==
    /\ (pc # "main_load" /\ ~data_dir.exists) => events = << >>
    /\ (pc # "main_load" /\ events = << >>) =>
          /\ pc \in {"main_check", "main_exit"}
          /\ requests_log = << >>
          /\ output_files = {}
          /\ model_idx = 0
          /\ pc = "main_exit" =>
                console[Len(console)] = Printed("No events loaded. Exiting.", << >>)

C10_Witness ==
    /\ pc = "main_exit"
    /\ ~data_dir.exists
    /\ events = << >>
    /\ console = << Printed("Data directory does not exist!", << >>),
                    Printed("No events loaded. Exiting.", << >>) >>

\* ------------------------------------------------------- the loader's claims
LoadOver == pc = "load_done"

\* C11 (as stated): every event load_historical_events returns has all seven
\* fields present and non-null: a record with one of them missing or null is
\* never among the loaded events.
C11_LoadedFieldsPresentAndNonNull ==
    LoadOver =>
        \A k \in 1..Len(events) :
            /\ DOMAIN events[k] = RequiredKeys
            /\ events[k].year \in Int
            /\ \A key \in RequiredKeys \ {"year"} : events[k][key] # Null

\* a record is well-formed when it is a key/value object with the seven keys
WellFormed(item) == item.kind = "object" /\ RequiredKeys \subseteq DOMAIN item.fields

\* the events of the well-formed records of a list of records, in their order
RECURSIVE WellFormedEvents(_)
WellFormedEvents(data) ==
    IF data = << >> THEN << >>
    ELSE (IF WellFormed(Head(data))
          THEN << HistoricalEvent(Head(data).fields) >> ELSE << >>)
         \o WellFormedEvents(Tail(data))

\* the same over the files of a directory, a file that cannot be read giving none
RECURSIVE WellFormedOfFiles(_)
WellFormedOfFiles(files) ==
    IF files = << >> THEN << >>
    ELSE (IF Head(files).loads THEN WellFormedEvents(Head(files).data) ELSE << >>)
         \o WellFormedOfFiles(Tail(files))

\* C12 (as stated): a malformed record is dropped alone: the loaded events are
\* exactly the well-formed records in their original order, whatever malformed
\* records sit before or after them.
C12_ExactlyTheWellFormedRecords ==
    LoadOver => events = WellFormedOfFiles(data_dir.files)

\* a source whose processing raises nothing: it loads and no record of it is
\* a number or null
Clean(file) == file.loads /\ \A j \in 1..Len(file.data) : file.data[j].kind # "scalar"

\* the directory without its f-th file
WithoutFile(dir, f) ==
    [dir EXCEPT !.files = SubSeq(dir.files, 1, f - 1)
                          \o SubSeq(dir.files, f + 1, Len(dir.files))]

Denominators(line) ==
    IF line.msg = "HALLUCINATION TEST SUMMARY"
    THEN {line.args[4][2], line.args[5][2]}
    ELSE IF line.msg = "accuracy" THEN {line.args[2][2]} ELSE {}

\* C14: aggregating no results divides by nothing: print_summary of an empty
\* list prints "No results to summarize" and nothing else, the overall summary
\* prints no line for a model without results, and no ratio that is printed
\* has a zero denominator.
C14_EmptyAggregation ==
    /\ \A k \in 1..Len(console) : 0 \notin Denominators(console[k])
    /\ pc = "main_save" /\ results = << >>
          => console[Len(console)] = Printed("No results to summarize", << >>)
    /\ pc = "main_exit" /\ model_idx = Len(models)
          => \A m \in 1..Len(models) :
                ModelResults(all_results, models[m]) = << >>
                   => \A k \in 1..Len(console) :
                         console[k].msg = "accuracy" => console[k].args[1] # models[m]

\* every model ran on a loaded pool and none returned a result
C14_Witness ==
    /\ pc = "main_exit"
    /\ model_idx = Len(models)
    /\ events # << >>
    /\ all_results = << >>
    /\ Cardinality({k \in 1..Len(console) :
                       console[k] = Printed("No results to summarize", << >>)})
          = Len(models)

\* the results of rs up to the k-th that are correct, and their confidences added
RECURSIVE CorrectUpTo(_, _)
CorrectUpTo(rs, k) ==
    IF k = 0 THEN 0
    ELSE CorrectUpTo(rs, k - 1) + (IF rs[k].is_correct THEN 1 ELSE 0)
RECURSIVE ConfidenceUpTo(_, _)
ConfidenceUpTo(rs, k) ==
    IF k = 0 THEN 0 ELSE ConfidenceUpTo(rs, k - 1) + rs[k].confidence_score

SummaryOver == pc = "summary_done"

\* C15: for a non-empty list print_summary reports the number of results, the
\* number of correct ones, the accuracy correct/total and the mean confidence
\* sum/total; two correct results and one incorrect with confidences 1.0, 1.0
\* and 0.2 give 2/3 and 2.2/3.
C15_SummaryOfResults ==
    /\ SummaryOver /\ results # << >> =>
          /\ Len(console) = 1
          /\ console[1].msg = "HALLUCINATION TEST SUMMARY"
          /\ console[1].args[2] = Len(results)
          /\ console[1].args[3] = CorrectUpTo(results, Len(results))
          /\ console[1].args[4] = << CorrectUpTo(results, Len(results)), Len(results) >>
          /\ console[1].args[5] = << ConfidenceUpTo(results, Len(results)), Len(results) >>
    /\ /\ SummaryOver
       /\ Len(results) = 3
       /\ [k \in 1..3 |-> results[k].is_correct] = << TRUE, TRUE, FALSE >>
       /\ [k \in 1..3 |-> results[k].confidence_score] = << 10, 10, 2 >>
       => console[1].args[4] = << 2, 3 >> /\ console[1].args[5] = << 22, 3 >>

C15_Witness ==
    /\ SummaryOver
    /\ Len(results) = 3
    /\ [k \in 1..3 |-> results[k].is_correct] = << TRUE, TRUE, FALSE >>
    /\ [k \in 1..3 |-> results[k].confidence_score] = << 10, 10, 2 >>
    /\ console[1].args[4] = << 2, 3 >>
    /\ console[1].args[5] = << 22, 3 >>

\* the score of the j-th sampled event's reply, and over the positions idx[1..k]
\* the number of correct ones and the confidences added
ScoreOfReply(j) ==
    calculate_accuracy_score(extract_year_from_response(replies[j].text),
                             selected_events[j].year)
RECURSIVE CorrectOver(_, _)
CorrectOver(idx, k) ==
    IF k = 0 THEN 0
    ELSE CorrectOver(idx, k - 1) + (IF ScoreOfReply(idx[k])[1] THEN 1 ELSE 0)
RECURSIVE ConfidenceOver(_, _)
ConfidenceOver(idx, k) ==
    IF k = 0 THEN 0 ELSE ConfidenceOver(idx, k - 1) + ScoreOfReply(idx[k])[2]

\* C16: the summary main prints for a run is computed over the events whose
\* query returned a text only: the total is their number, the accuracy and the
\* mean confidence are taken over them, and an event whose query failed adds
\* to neither the numerators nor the denominators.
C16_FailedQueriesNotAggregated ==
    pc = "main_save" =>
        LET idx == AnsweredIdx(Len(replies))
            line == console[Len(console)]
        IN  IF idx = << >>
            THEN line = Printed("No results to summarize", << >>)
            ELSE /\ line.msg = "HALLUCINATION TEST SUMMARY"
                 /\ line.args[2] = Len(idx)
                 /\ line.args[3] = CorrectOver(idx, Len(idx))
                 /\ line.args[4] = << CorrectOver(idx, Len(idx)), Len(idx) >>
                 /\ line.args[5] = << ConfidenceOver(idx, Len(idx)), Len(idx) >>

\* of two sampled events the first query failed and the second was answered
\* with the right year: one test, accuracy 1/1
C16_Witness ==
    /\ pc = "main_save"
    /\ Len(selected_events) = 2
    /\ Len(replies) = 2
    /\ replies[1].is_none
    /\ ~replies[2].is_none
    /\ console[Len(console)].msg = "HALLUCINATION TEST SUMMARY"
    /\ console[Len(console)].args[2] = 1
    /\ console[Len(console)].args[4] = << 1, 1 >>

\* the results without an extracted year
Misses(rs) == {k \in 1..Len(rs) : rs[k].extracted_year = None}

\* C17: when a run returns, an answered event in whose response no year is
\* found (an empty or digit-free text included) has its result, with no year,
\* is_correct false and confidence 0.0; the summary counts it in the total
\* and in both denominators, and it adds nothing to the numerators.
C17_ExtractionMissRecorded ==
    LET idx == AnsweredIdx(DoneCount)
    IN  /\ pc = "returned" =>
           \A k \in 1..Len(idx) :
              \/ extract_year_from_response(replies[idx[k]].text) # None
              \/ /\ k <= Len(results)
                 /\ results[k].model_response = replies[idx[k]].text
                 /\ results[k].extracted_year = None
                 /\ ~results[k].is_correct
                 /\ results[k].confidence_score = 0
        /\ pc = "main_save" /\ results # << >> =>
              LET line == console[Len(console)]
                  hits == (1..Len(results)) \ Misses(results)
                  total == Cardinality(hits) + Cardinality(Misses(results))
              IN  /\ line.args[2] = total
                  /\ line.args[4] =
                        << Cardinality({k \in hits : results[k].is_correct}), total >>
                  /\ line.args[5] =
                        << ConfidenceUpTo(results, Len(results)), total >>
                  /\ \A k \in Misses(results) : results[k].confidence_score = 0

\* an empty response and a right one: two tests, accuracy 1/2, confidence 1.0/2
C17_Witness ==
    /\ pc = "main_save"
    /\ Len(results) = 2
    /\ results[1].model_response = RespEmpty
    /\ results[1].extracted_year = None
    /\ results[2].is_correct
    /\ console[Len(console)].args[2] = 2
    /\ console[Len(console)].args[4] = << 1, 2 >>
    /\ console[Len(console)].args[5] = << 10, 2 >>

\* ------------------------------------------------ runs for several models
\* main's run for the model_idx-th model is past its sampling
RunSampled ==
    /\ model_idx >= 1
    /\ pc \in {"loop", "query", "check", "extract", "score", "record", "returned",
               "main_save", "main_extend"}

\* the state the generator was in when main started: every run so far has
\* drawn one sample of Len(events) >= 1 events
StartState == (rng + RngStates * Len(models) - model_idx) % RngStates

\* C18 (as stated): runs for different models share nothing but the event
\* pool, which none modifies, so the sample a run draws does not depend on the
\* runs executed before it: it is the sample the run draws when it is the
\* first to execute.
C18_SampleIndependentOfOtherRuns ==
    /\ pc # "main_load" => events = load_historical_events(data_dir).events
    /\ RunSampled =>
          selected_events =
             Drawn(random_sample(events, Min(num_tests, Len(events))), StartState)

\* ------------------------------------------------------ save_results' claims
SaveOver == pc = "save_done"

\* a name with each ':' replaced by '_', and the file name made of it
RECURSIVE Sanitized(_)
Sanitized(name) ==
    IF name = << >> THEN << >>
    ELSE << IF Head(name) = ":" THEN "_" ELSE Head(name) >> \o Sanitized(Tail(name))
FileNameOf(name) ==
    << "r", "e", "s", "u", "l", "t", "s", "_" >> \o Sanitized(name)
    \o << ".", "j", "s", "o", "n" >>

\* C19: the file save_results writes is named results_<name>.json, <name>
\* being the model name with every ':' replaced by '_' and nothing else: a
\* call for the same model name writes the same file (one file per name, each
\* named after the model whose results it holds), and no name contains ':'.
C19_FileNamedAfterModel ==
    SaveOver =>
        /\ \E f \in output_files :
              f.name = FileNameOf(model_name) /\ Len(f.data) = Len(results)
        /\ \A f \in output_files :
              /\ \A k \in 1..Len(f.name) : f.name[k] # ":"
              /\ \A k \in 1..Len(f.data) : f.name = FileNameOf(f.data[k].model_name)
              /\ \A g \in output_files : g.name = f.name => g = f

C19_Witness ==
    /\ SaveOver
    /\ model_name = << ":", ":" >>
    /\ Len(results) = 2
    /\ \E f \in output_files :
          /\ f.name = << "r", "e", "s", "u", "l", "t", "s", "_", "_", "_",
                         ".", "j", "s", "o", "n" >>
          /\ Len(f.data) = 2
    /\ Cardinality(output_files) = 1

\* the keys of an element of the array written, and of its "event"
ResultKeys ==
    {"model_name", "event", "question", "model_response", "extracted_year",
     "is_correct", "confidence_score"}

\* C20: the array save_results writes for the model has one element per
\* result of the run, in the run's order; each element holds the seven fields
\* of the event, the question, the raw response, the extracted year, the
\* correctness flag and the confidence (and the model name) with the values
\* the result holds, and nothing else.
C20_SerializedVerbatim ==
    SaveOver =>
        \E f \in output_files :
            /\ f.name = OutputFile(model_name)
            /\ Len(f.data) = Len(results)
            /\ \A k \in 1..Len(results) :
                  /\ DOMAIN f.data[k] = ResultKeys
                  /\ DOMAIN f.data[k].event = RequiredKeys
                  /\ \A key \in RequiredKeys :
                        f.data[k].event[key] = results[k].event[key]
                  /\ f.data[k].question = results[k].question
                  /\ f.data[k].model_response = results[k].model_response
                  /\ f.data[k].extracted_year = results[k].extracted_year
                  /\ f.data[k].is_correct = results[k].is_correct
                  /\ f.data[k].confidence_score = results[k].confidence_score
                  /\ f.data[k].model_name = results[k].model_name

\* a run of three results, the second without a year, written in that order
C20_Witness ==
    /\ SaveOver
    /\ Len(results) = 3
    /\ results[1].extracted_year = Some(1969)
    /\ results[2].extracted_year = None
    /\ results[3].is_correct
    /\ \E f \in output_files :
          /\ Len(f.data) = 3
          /\ f.data[1].is_correct
          /\ f.data[2].extracted_year = None
          /\ f.data[2].model_response = RespEmpty
          /\ f.data[3].confidence_score = 10

\* ---------------------------------------------------- the pipeline's claims
\* C21: the per-event pipeline is a function of the event and the response:
\* two results for the same event and the same response text hold the same
\* question, extracted year, correctness and confidence, whatever was
\* processed before them; two events with the same text get the same
\* question, and the question of a result is the prompt that was sent.
C21_PipelineDeterministic ==
    LET idx == AnsweredIdx(DoneCount)
    IN  /\ \A a, b \in 1..Len(results) :
              /\ results[a].event.text = results[b].event.text
                    => results[a].question = results[b].question
              /\ results[a].model_response = results[b].model_response
                    => results[a].extracted_year = results[b].extracted_year
              /\ /\ results[a].event = results[b].event
                 /\ results[a].model_response = results[b].model_response
                 => /\ results[a].is_correct = results[b].is_correct
                    /\ results[a].confidence_score = results[b].confidence_score
        /\ \A k \in 1..Len(results) :
              k <= Len(idx) => requests_log[idx[k]].prompt = results[k].question

\* the same event answered three times, the first and the last time with the
\* same text and in between with another
C21_Witness ==
    /\ pc = "returned"
    /\ Len(results) = 3
    /\ results[1].event = results[3].event
    /\ results[1].event = results[2].event
    /\ results[1].model_response = RespEmpty
    /\ results[3].model_response = RespEmpty
    /\ results[2].model_response = RespBelieve1969
    /\ results[2].extracted_year = Some(1969)
    /\ results[3].extracted_year = None

\* C22 (as stated): whatever the queries come to, a run that drew its sample
\* eventually finishes processing every sampled event and returns its list.
C22_RunReturnsItsList ==
    (pc = "loop" /\ i = 0) ~> (pc = "returned" /\ i = Len(selected_events))

\* ------------------------------------------------- the dataset tools' claims
\* the 365 dates of the year, as << month, day >>
CalendarDates ==
    UNION {{<< mo, dy >> : dy \in 1..days_in_month[mo]} : mo \in 1..12}

\* C23 (as stated): scrape_all_dates writes a file for no date that does not
\* exist, and once it returns the files are the events file and the selected
\* file of each of the 365 dates, 730 files.
C23_FilesForCalendarDatesOnly ==
    /\ \A f \in dataset_files : << f[2], f[3] >> \in CalendarDates
    /\ pc = "scrape_done" =>
          /\ dataset_files =
                {<< dir, d[1], d[2] >> : dir \in {"events", "selected"},
                                         d \in CalendarDates}
          /\ Cardinality(dataset_files) = 730

\* process_file ended a call with "Error processing": an exception cut it short
ErrorPrinted == \E k \in DOMAIN console : console[k].msg = "Error processing"

\* C24: a call of process_file that finds a non-empty output file issues no
\* classification query and leaves the file as it is; and a call that follows
\* completed calls on the same input changes nothing in the output file,
\* whatever the classifications of the earlier call came to.
C24_ResumeIdempotent ==
    [][/\ (pc = "pf_check" /\ output_file.exists /\ output_file.size > 0) =>
              (queries' = queries /\ output_file' = output_file /\ pc' = "pf_done")
       /\ (invocation >= 2 /\ ~ErrorPrinted) => output_file' = output_file]_vars

\* the second call skipped a file the first call wrote with one of two facts
\* classified
C24_Witness ==
    /\ invocation = 2
    /\ pc = "pf_done"
    /\ ~ErrorPrinted
    /\ Len(facts.data) = 2
    /\ Len(queries) = 2
    /\ Len(output_file.data) = 1
    /\ console[Len(console)].msg = "Skipping"
    /\ \E k \in DOMAIN console : console[k].msg = "Failed to classify fact"

\* C25: the k-th query of a run is the question of the k-th sampled event, so
\* no event is queried twice and no query is repeated; and once the run is
\* over, as many queries were issued as events were sampled.
C25_EachEventQueriedOnce ==
    /\ Len(requests_log) <= Len(selected_events)
    /\ \A k \in 1..Len(requests_log) :
          requests_log[k].prompt = generate_question_from_event(selected_events[k])
    /\ RunOver => Len(requests_log) = Len(selected_events)

\* the part of C25 that is about repetition alone: one query per event the
\* loop reached, the event in progress included once its query is issued
C25_NoQueryRepeated ==
    /\ Len(requests_log) = (IF pc = "query" THEN i - 1 ELSE i)
    /\ \A k \in 1..Len(requests_log) :
          requests_log[k].prompt = generate_question_from_event(selected_events[k])

\* the order of the stages of a run: pc "query" is an event Sampled and about
\* to be queried, "check" Queried, "score" Extracted, "record" Scored, and
\* back at "loop" the event is Recorded or its failure handled
StageOrder ==
    {<< "sample", "loop" >>, << "sample", "raised" >>, << "loop", "query" >>,
     << "loop", "returned" >>, << "query", "check" >>, << "query", "raised" >>,
     << "check", "loop" >>, << "check", "score" >>, << "score", "record" >>,
     << "record", "loop" >>}

\* C26: the events of a run go one at a time, in sample order, through
\* Sampled, Queried, Extracted, Scored, Recorded: a query is issued only when
\* every earlier event is recorded or skipped, and it is the question of the
\* next sampled event; extraction and scoring follow a response only, a failed
\* query goes straight back to the loop without a result; a result is
\* appended at the end of the list for the event in progress, so the results
\* are in the order of their events in the sample.
C26_SequentialInSampleOrder ==
    /\ [](LET idx == AnsweredIdx(DoneCount)
          IN  /\ Len(results) = Len(idx)
              /\ \A k \in 1..Len(idx) : results[k].event = selected_events[idx[k]]
              /\ \A k \in 1..(Len(idx) - 1) : idx[k] < idx[k + 1])
    /\ [][/\ pc' # pc => << pc, pc' >> \in StageOrder
          /\ i' # i => (pc = "loop" /\ i' = i + 1)
          /\ requests_log' # requests_log =>
                /\ pc = "query"
                /\ Len(requests_log) = i - 1
                /\ Len(replies) = i - 1
                /\ Len(results) = Len(AnsweredIdx(i - 1))
                /\ requests_log' =
                      Append(requests_log,
                             [model |-> model_name,
                              prompt |-> generate_question_from_event(selected_events[i])])
          /\ pc' \in {"score", "record"} =>
                (~response.is_none /\ Len(replies) = i /\ replies[i] = response)
          /\ (extracted_year' # extracted_year \/ score' # score) =>
                (~response.is_none /\ pc \in {"check", "score"})
          /\ (pc = "check" /\ response.is_none) =>
                (pc' = "loop" /\ results' = results)
          /\ results' # results =>
                /\ pc = "record"
                /\ Len(results') = Len(results) + 1
                /\ SubSeq(results', 1, Len(results)) = results
                /\ results'[Len(results')].event = selected_events[i]]_vars

\* a run of three events returned: the second query failed, the first and the
\* third event are recorded in that order
C26_Witness ==
    /\ pc = "returned"
    /\ Len(selected_events) = 3
    /\ selected_events[1] # selected_events[3]
    /\ replies[2].is_none
    /\ Len(results) = 2
    /\ results[1].event = selected_events[1]
    /\ results[2].event = selected_events[3]

\* the steps of test_model_for_hallucinations, and those of print_summary and
\* save_results in main
RunSteps == {"sample", "loop", "query", "check", "score", "record"}
ReportSteps == {"returned", "main_save"}

\* C27: no step of a run changes the event pool or an event in it, and
\* print_summary and save_results leave the result list and every result in it
\* as the run returned them.
C27_InputsReadOnly ==
    [][/\ pc \in RunSteps => events' = events
       /\ pc \in ReportSteps => (results' = results /\ events' = events)]_vars

\* main summarised and saved a run of two results over a pool of two
\* different events
C27_Witness ==
    /\ pc = "main_extend"
    /\ Len(events) = 2
    /\ events[1] # events[2]
    /\ Len(results) = 2
    /\ output_files # {}
    /\ console # << >>

\* C28: a result recorded for an event whose year is outside [1500, 2024] is
\* never correct and its confidence is below 1.0, whatever the response was.
C28_OutOfRangeNeverCorrect ==
    \A k \in 1..Len(results) :
        results[k].event.year \notin YearMin..YearMax =>
            (~results[k].is_correct /\ results[k].confidence_score < 10)

\* the model answered "1499" for the event of 1499: no year is extracted and
\* the result is recorded as wrong
C28_Witness ==
    /\ pc = "returned"
    /\ Len(results) = 1
    /\ results[1].event = EventPre1500
    /\ results[1].model_response = << "1", "4", "9", "9" >>
    /\ results[1].extracted_year = None
    /\ ~results[1].is_correct

\* C29: two different model names have different result files, and
\* save_results for one model leaves the file holding the results of another
\* model as it is.
C29_NoOverwriteAcrossModels ==
    [][/\ \A other \in SaveNames(MaxName) :
             other # model_name => OutputFile(other) # OutputFile(model_name)
       /\ \A f \in output_files :
             (\E k \in 1..Len(f.data) : f.data[k].model_name # model_name) =>
                 f \in output_files']_vars

\* C30: a run with num_tests = 0 issues no query and returns the empty list;
\* a run with a negative num_tests issues no query, never returns, and ends
\* with the error random.sample raises.
C30_NonPositiveSampleSize ==
    /\ num_tests = 0 =>
          /\ requests_log = << >>
          /\ pc \in {"sample", "loop", "returned"}
          /\ pc = "returned" => results = << >>
    /\ num_tests < 0 =>
          /\ requests_log = << >>
          /\ pc \in {"sample", "raised"}
          /\ pc = "raised" => exc = "ValueError"

\* a run over a pool of events with a negative num_tests ended with the error
C30_Witness ==
    /\ num_tests < 0
    /\ Len(events) >= 2
    /\ pc = "raised"
    /\ exc = "ValueError"
    /\ requests_log = << >>
    /\ results = << >>

====
